---- MODULE Spec2Model ----
(***************************************************************************)
(* restic-automator: a watcher per configured directory turns filesystem   *)
(* change notifications into throttled runs of the external backup tool.   *)
(*                                                                         *)
(* The model follows src/src/main.rs.  main() runs unlock_repository, then *)
(* builds one start_watching future per directory and awaits them with     *)
(* join_all: all of them are polled by the one task that block_on drives,  *)
(* on one thread.  backup() uses std::process (blocking): from spawn to    *)
(* the end of cmd.wait() that thread is held by the job that spawned.      *)
(* The notify watcher delivers events from its own thread into the job's   *)
(* unbounded channel at any time.  A panic (expect/unwrap) in any of the   *)
(* futures unwinds through block_on and ends the process.                  *)
(***************************************************************************)
EXTENDS Integers, Sequences, FiniteSets, TLC

\* ---- configuration (config.yml: dirs[], one entry per job) ----
Jobs == {1, 2}
\* dirs[j].throttle, in seconds
Throttle == <<1, 2>>

\* BackupConfig as main() reads it from config.yml; the strings stand for the
\* configured values
Config ==
    [repo |-> "cfg:repo", exclude_file |-> "cfg:exclude-file",
     password_command |-> "cfg:password-command", env_path |-> "cfg:env-path",
     restic_path |-> "cfg:restic-path"]
\* dirs[j].path
JobPath == <<"cfg:dirs[1].path", "cfg:dirs[2].path">>

\* no child: nothing was launched
NoCommand ==
    [exe |-> "", env |-> [PATH |-> "", RESTIC_PASSWORD_COMMAND |-> ""],
     args |-> <<>>]

\* faulty variant of BackupCommand: the subcommand is given before the global
\* options and the quiet flag is left out
BackupCommandReordered(j) ==
    [exe |-> Config.restic_path,
     env |-> [PATH |-> Config.env_path,
              RESTIC_PASSWORD_COMMAND |-> Config.password_command],
     args |-> <<"backup", JobPath[j], "-r", Config.repo, "--json",
                "--exclude-file", Config.exclude_file>>]

\* lines 35-45: Command::new(restic_path), the two .env() and the .arg() calls
\* in the order they are made
BackupCommand(j) ==
    [exe |-> Config.restic_path,
     env |-> [PATH |-> Config.env_path,
              RESTIC_PASSWORD_COMMAND |-> Config.password_command],
     args |-> <<"-r">> \o <<Config.repo>> \o <<"--json">> \o <<"-q">>
              \o <<"--exclude-file">> \o <<Config.exclude_file>>
              \o <<"backup">> \o <<JobPath[j]>>]

\* ---- bounds of the model ----
MaxSlept == 3
MaxQueue == 1

\* phase of the job at the moment a signal was delivered to its channel
Tags == {"I", "P", "R"}
\* what read_to_string leaves in `result`, by how serde_json::from_str sees it
OutKinds == {"result", "otherjson", "garbage", "empty", "unreadable"}
\* how the unlock subprocess ends
UnlockOutcomes == {"ok", "nonzero", "spawn_failed", "wait_failed"}

VARIABLES
    mainpc,      \* position of main(): "unlock", "unlocking" (waiting for the
                 \* unlock child), "run" (join_all), "panicked"
    unlockRuns,  \* number of times unlock_repository was entered
    unlockExit,  \* how the unlock subprocess ended ("none" before it ran)
    pc,          \* per job: position of start_watching / backup
    queue,       \* per job: signals in the unbounded channel, tagged
    trigger,     \* per job: tag of the signal that started the current cycle
    slept,       \* per job: seconds since the sleep of line 31 began, up to the
                 \* spawn (MaxSlept stands for MaxSlept or more)
    blocker,     \* job holding the executor thread in a blocking call, 0 if none
    inflight,    \* per job: child backup processes spawned and not yet exited
    stdoutOpen,  \* per job: the current child still has its stdout open
    errBig,      \* per job: the current child writes more stderr than the pipe holds
    cmd,         \* per job: executable, environment and arguments of the
                 \* current child
    srcDead,     \* per job: the watcher reported an error and delivers nothing more
    cyclelog,    \* per job: log events of the current (or last) cycle
    exitCode,    \* per job: exit status of the last child that exited
    panicBy      \* 0, or the job whose future panicked

vars == <<mainpc, unlockRuns, unlockExit, pc, queue, trigger, slept, blocker,
          inflight, stdoutOpen, errBig, cmd, srcDead, exitCode, cyclelog,
          panicBy>>

jobvars == <<pc, queue, trigger, slept, blocker, inflight, stdoutOpen, errBig,
             cmd, srcDead, exitCode, cyclelog>>

\* faulty variant of Alive: the schedulers run as soon as the unlock child is
\* launched, without waiting for it
AliveBeforeUnlockEnds == mainpc \in {"unlocking", "run"}

\* the process is alive and main() is inside join_all
Alive == mainpc = "run"

\* SchedulerState of the specification, from the position in the code
Idle(j) == pc[j] = "Idle"
Pending(j) == pc[j] = "Pending"
Running(j) == pc[j] = "Running"

\* one line of the log: the event and what it carries
LogLine(e, a) == [ev |-> e, arg |-> a]

\* phase tag given to a signal delivered now
TagOf(j) == IF Pending(j) THEN "P" ELSE IF Running(j) THEN "R" ELSE "I"

Init ==
    /\ mainpc = "unlock"
    /\ unlockRuns = 0
    /\ unlockExit = "none"
    /\ pc = [j \in Jobs |-> "NotStarted"]
    /\ queue = [j \in Jobs |-> <<>>]
    /\ trigger = [j \in Jobs |-> "none"]
    /\ slept = [j \in Jobs |-> 0]
    /\ blocker = 0
    /\ inflight = [j \in Jobs |-> 0]
    /\ stdoutOpen = [j \in Jobs |-> FALSE]
    /\ errBig = [j \in Jobs |-> FALSE]
    /\ srcDead = [j \in Jobs |-> FALSE]
    /\ cmd = [j \in Jobs |-> NoCommand]
    /\ exitCode = [j \in Jobs |-> 0]
    /\ cyclelog = [j \in Jobs |-> <<>>]
    /\ panicBy = 0

\* unlock_repository, lines 92-103 up to spawn().expect(..): the unlock child is
\* launched, or the expect panics
UnlockSpawn ==
    /\ mainpc = "unlock"
    /\ unlockRuns' = unlockRuns + 1
    /\ \E ok \in BOOLEAN :
        IF ok
        THEN /\ mainpc' = "unlocking"
             /\ UNCHANGED unlockExit
        ELSE /\ mainpc' = "panicked"
             /\ unlockExit' = "spawn_failed"
    /\ UNCHANGED <<jobvars, panicBy>>

\* .wait().expect(..) of line 103: Err panics; the ExitStatus inside Ok is
\* dropped, so a non-zero exit continues like a zero one
UnlockProceeds(o) == o \in {"ok", "nonzero"}

\* unlock_repository, lines 103-104, and main() going on to join_all
UnlockWait ==
    /\ mainpc = "unlocking"
    /\ \E o \in UnlockOutcomes \ {"spawn_failed"} :
        /\ unlockExit' = o
        /\ mainpc' = IF UnlockProceeds(o) THEN "run" ELSE "panicked"
    /\ UNCHANGED <<unlockRuns, jobvars, panicBy>>

\* a panic in job j's future: it unwinds through join_all and block_on
Panic(j) ==
    /\ mainpc' = "panicked"
    /\ panicBy' = j

\* start_watching up to the loop (lines 69-77): the channel, the watcher, watch()
StartWatching(j) ==
    /\ Alive /\ blocker = 0
    /\ pc[j] = "NotStarted"
    /\ \A i \in Jobs : i < j => pc[i] # "NotStarted"
    /\ \E ok \in BOOLEAN :
        IF ok
        THEN /\ pc' = [pc EXCEPT ![j] = "Idle"]
             /\ UNCHANGED <<mainpc, panicBy, srcDead, cmd>>
        ELSE /\ Panic(j)
             /\ UNCHANGED pc
    /\ UNCHANGED <<unlockRuns, unlockExit, queue, trigger, slept, blocker,
                   inflight, stdoutOpen, errBig, exitCode, cyclelog, srcDead,
                   cmd>>

\* the watcher's callback (lines 70-75), on the watcher's own thread: Ok(_) sends
Signal(j) ==
    /\ Alive
    /\ pc[j] # "NotStarted"
    /\ ~srcDead[j]
    /\ Len(queue[j]) < MaxQueue
    /\ queue' = [queue EXCEPT ![j] = Append(@, TagOf(j))]
    /\ UNCHANGED <<mainpc, unlockRuns, unlockExit, pc, trigger, slept,
                   blocker, inflight, stdoutOpen, errBig, exitCode, cyclelog,
                   panicBy, srcDead, cmd>>

\* the watcher's callback with Err(_) (line 73): nothing is sent and nothing
\* else is done.  Here the error is the last thing the watcher reports.  The
\* sender stays alive inside the watcher that start_watching holds, so the
\* channel is never closed and rx.recv() never returns None.
WatcherError(j) ==
    /\ Alive
    /\ pc[j] # "NotStarted"
    /\ ~srcDead[j]
    /\ srcDead' = [srcDead EXCEPT ![j] = TRUE]
    /\ UNCHANGED <<mainpc, unlockRuns, unlockExit, pc, queue, trigger, slept,
                   blocker, inflight, stdoutOpen, errBig, exitCode, cyclelog,
                   panicBy, cmd>>

\* faulty variant of ScheduledLog: nothing is logged before the sleep
ScheduledLogMissing == <<>>

\* line 30: the first thing backup() does, before the sleep, is to log that
\* the job is scheduled
ScheduledLog == <<LogLine("scheduled", "-")>>

\* line 79 returns a signal; the first poll of select! runs backup() up to the
\* sleep (the "scheduled" line, the timer) and the drain loop empties the channel
Consume(j) ==
    /\ Alive /\ blocker = 0
    /\ Idle(j)
    /\ queue[j] # <<>>
    /\ trigger' = [trigger EXCEPT ![j] = Head(queue[j])]
    /\ queue' = [queue EXCEPT ![j] = <<>>]
    /\ pc' = [pc EXCEPT ![j] = "Pending"]
    /\ slept' = [slept EXCEPT ![j] = 0]
    /\ cyclelog' = [cyclelog EXCEPT ![j] = ScheduledLog]
    /\ exitCode' = [exitCode EXCEPT ![j] = 0]
    /\ UNCHANGED <<mainpc, unlockRuns, unlockExit, blocker, inflight,
                   stdoutOpen, errBig, panicBy, srcDead, cmd>>

\* faulty variant of SleptAfterDrain: a received signal starts the sleep again
\* (a debounce that resets on every signal)
SleptResetByDrain(j) == 0

\* the sleep's progress after the drain loop (lines 82-86) received signals:
\* the loop only receives, the Sleep future of the other branch is not touched
SleptAfterDrain(j) == slept[j]

\* faulty variant of PcAfterDrain: the drain branch completes on a received
\* signal, select! drops the backup future and the loop is at rx.recv() again
PcAfterDrainEnds(j) == "Idle"

\* where start_watching is after the drain loop (lines 82-86) received
\* signals: the loop has no break, its branch of select! stays pending
PcAfterDrain(j) == "Pending"

\* a poll of select! while the sleep has not completed the backup branch: the
\* drain loop receives every queued signal and drops it
Drain(j) ==
    /\ Alive /\ blocker = 0
    /\ Pending(j)
    /\ queue[j] # <<>>
    /\ queue' = [queue EXCEPT ![j] = <<>>]
    /\ slept' = [slept EXCEPT ![j] = SleptAfterDrain(j)]
    /\ pc' = [pc EXCEPT ![j] = PcAfterDrain(j)]
    /\ UNCHANGED <<mainpc, unlockRuns, unlockExit, trigger, blocker, inflight,
                   stdoutOpen, errBig, exitCode, cyclelog, panicBy, srcDead,
                   cmd>>

\* the sleep of line 31 is over
TimerElapsed(j) == slept[j] >= Throttle[j]

\* lines 32-48, spawn succeeds: the thread now runs backup() without yielding
\* until it returns; signals still queued stay in the channel
SpawnOk(j) ==
    /\ Alive /\ blocker = 0
    /\ Pending(j)
    /\ TimerElapsed(j)
    /\ \E eb \in BOOLEAN : errBig' = [errBig EXCEPT ![j] = eb]
    /\ pc' = [pc EXCEPT ![j] = "Running"]
    /\ blocker' = j
    /\ inflight' = [inflight EXCEPT ![j] = @ + 1]
    /\ stdoutOpen' = [stdoutOpen EXCEPT ![j] = TRUE]
    /\ cyclelog' = [cyclelog EXCEPT ![j] = Append(@, LogLine("initiating", "-"))]
    /\ cmd' = [cmd EXCEPT ![j] = BackupCommand(j)]
    /\ UNCHANGED <<mainpc, unlockRuns, unlockExit, queue, trigger, slept,
                   exitCode, panicBy, srcDead>>

\* lines 32-48, spawn fails: .expect("Failed to spawn restic process.") panics
SpawnFail(j) ==
    /\ Alive /\ blocker = 0
    /\ Pending(j)
    /\ TimerElapsed(j)
    /\ cyclelog' = [cyclelog EXCEPT ![j] = Append(@, LogLine("initiating", "-"))]
    /\ Panic(j)
    /\ cmd' = [cmd EXCEPT ![j] = BackupCommand(j)]
    /\ UNCHANGED <<unlockRuns, unlockExit, pc, queue, trigger, slept, blocker,
                   inflight, stdoutOpen, errBig, exitCode, srcDead>>

\* the child closes its stdout (the reader of line 54 then sees end of file)
ChildCloseStdout(j) ==
    /\ inflight[j] > 0
    /\ stdoutOpen[j]
    /\ stdoutOpen' = [stdoutOpen EXCEPT ![j] = FALSE]
    /\ UNCHANGED <<mainpc, unlockRuns, unlockExit, pc, queue, trigger, slept,
                   blocker, inflight, errBig, exitCode, cyclelog, panicBy,
                   srcDead, cmd>>

\* the child exits; one that writes more stderr than the pipe holds cannot,
\* because nothing reads err_reader (line 51)
ChildExit(j) ==
    /\ inflight[j] > 0
    /\ ~errBig[j]
    /\ \E code \in {0, 1} : exitCode' = [exitCode EXCEPT ![j] = code]
    /\ inflight' = [inflight EXCEPT ![j] = @ - 1]
    /\ stdoutOpen' = [stdoutOpen EXCEPT ![j] = FALSE]
    /\ UNCHANGED <<mainpc, unlockRuns, unlockExit, pc, queue, trigger, slept,
                   blocker, errBig, cyclelog, panicBy, srcDead, cmd>>

\* content of `result` after read_to_string: on Err nothing was appended
ResultOf(o) == IF o = "unreadable" THEN "empty" ELSE o

\* line 54: read_to_string returns at end of file, that is once the child has
\* closed its stdout
ReadReturns(j) == ~stdoutOpen[j]

\* faulty variant of WaitReturns: the child is not waited for
WaitReturnsAtOnce(j) == TRUE

\* line 55: cmd.wait() returns once the child has exited
WaitReturns(j) == inflight[j] = 0

\* line 56: serde_json::from_str::<Value> accepts every JSON value
ParsesAsJson(r) == r \in {"result", "otherjson"}

\* lines 54-63: what one invocation logs when the child's stdout was of kind o.
\* The summary prints v["files_new"], v["files_changed"], v["total_duration"]:
\* the values of a result object, null for any other JSON value.  The error
\* line prints `result`.
CompletionLog(o) ==
    (IF o = "unreadable" THEN <<LogLine("read_error", "-")>> ELSE <<>>)
    \o <<IF ParsesAsJson(ResultOf(o))
         THEN LogLine("summary", IF ResultOf(o) = "result" THEN "values" ELSE "null")
         ELSE LogLine("parse_error", ResultOf(o))>>

\* faulty variant of PcAfterBackup: an invocation whose output did not parse is
\* tried again without a new signal
PcAfterBackupRetry(o) == IF o \in {"result", "otherjson"} THEN "Idle" ELSE "Pending"

\* where start_watching is after backup() returned: line 81 ignores the value,
\* select! ends and the loop is at rx.recv() again, whatever stdout held
PcAfterBackup(o) == "Idle"

\* lines 50-65: read stdout to its end, wait for the child, parse, log, Ok(());
\* select! completes and the loop of line 78 is back at rx.recv()
Finish(j) ==
    /\ Alive /\ blocker = j
    /\ Running(j)
    /\ ReadReturns(j)
    /\ WaitReturns(j)
    /\ \E o \in OutKinds :
        /\ cyclelog' = [cyclelog EXCEPT ![j] = @ \o CompletionLog(o)]
        /\ pc' = [pc EXCEPT ![j] = PcAfterBackup(o)]
    /\ blocker' = 0
    /\ trigger' = [trigger EXCEPT ![j] = "none"]
    /\ slept' = [slept EXCEPT ![j] = 0]
    /\ errBig' = [errBig EXCEPT ![j] = FALSE]
    /\ cmd' = [cmd EXCEPT ![j] = NoCommand]
    /\ UNCHANGED <<mainpc, unlockRuns, unlockExit, queue, inflight,
                   stdoutOpen, exitCode, panicBy, srcDead>>

\* job j has a step the executor thread takes without delay
Ready(j) ==
    \/ /\ blocker = 0
       /\ \/ pc[j] = "NotStarted"
          \/ Idle(j) /\ queue[j] # <<>>
          \/ Pending(j) /\ (queue[j] # <<>> \/ TimerElapsed(j))
    \/ /\ blocker = j
       /\ Running(j) /\ ReadReturns(j) /\ WaitReturns(j)

\* one second passes for every sleep in progress; the runtime does not sit on
\* a step that is ready
Tick ==
    /\ Alive
    /\ \E j \in Jobs : Pending(j)
    /\ \A j \in Jobs : ~Ready(j)
    /\ slept' = [j \in Jobs |->
                    IF Pending(j) /\ slept[j] < MaxSlept THEN slept[j] + 1
                                                         ELSE slept[j]]
    /\ UNCHANGED <<mainpc, unlockRuns, unlockExit, pc, queue, trigger,
                   blocker, inflight, stdoutOpen, errBig, exitCode, cyclelog,
                   panicBy, srcDead, cmd>>

\* the steps that job j's start_watching future takes on the executor thread
SchedulerStep(j) ==
    \/ StartWatching(j)
    \/ Consume(j)
    \/ Drain(j)
    \/ SpawnOk(j)
    \/ SpawnFail(j)
    \/ Finish(j)

Next ==
    \/ UnlockSpawn
    \/ UnlockWait
    \/ \E j \in Jobs : StartWatching(j)
    \/ \E j \in Jobs : Signal(j)
    \/ \E j \in Jobs : WatcherError(j)
    \/ \E j \in Jobs : Consume(j)
    \/ \E j \in Jobs : Drain(j)
    \/ \E j \in Jobs : SpawnOk(j)
    \/ \E j \in Jobs : SpawnFail(j)
    \/ \E j \in Jobs : ChildCloseStdout(j)
    \/ \E j \in Jobs : ChildExit(j)
    \/ \E j \in Jobs : Finish(j)
    \/ Tick

\* ---------------------------------------------------------------------------
\* Properties
\* ---------------------------------------------------------------------------

Last(q) == q[Len(q)]
Events(q) == {q[i].ev : i \in 1..Len(q)}
QueueTags(j) == {queue[j][i] : i \in 1..Len(queue[j])}
\* the last invocation of job j has completed and logged e as its last line
Completed(j, e) == cyclelog[j] # <<>> /\ Last(cyclelog[j]).ev = e

\* C1 (single-flight): a job never has two backup children alive at once, and
\* while it waits for a signal or sleeps the throttle (a new cycle) no child
\* of an earlier cycle is still alive.
SingleFlight ==
    \A j \in Jobs :
        /\ inflight[j] <= 1
        /\ ~Running(j) => inflight[j] = 0

\* a second invocation of a job, started by a signal that arrived while the
\* first one ran, is in flight
SingleFlightWitness ==
    \E j \in Jobs : Running(j) /\ inflight[j] = 1 /\ trigger[j] = "R"

\* C2 (absorption): a signal delivered while the job is Running is discarded:
\* it is not in the channel when the job is Idle again, and it does not start
\* a follow-up cycle.
Absorption ==
    \A j \in Jobs :
        /\ Idle(j) => "R" \notin QueueTags(j)
        /\ trigger[j] # "R"

\* C3 (throttle timing): the sleep of a cycle begins when the cycle's first
\* signal moves the job from Idle to Pending, signals received while Pending
\* never set it back, the tool is spawned only once it has lasted `throttle`
\* seconds, and a cycle sleeps once: Running is left for Idle only.
ThrottleTiming ==
    [][\A j \in Jobs :
          /\ (Idle(j) /\ ~Idle(j)') => (Pending(j)' /\ slept'[j] = 0)
          /\ (Pending(j) /\ Pending(j)') => slept'[j] >= slept[j]
          /\ (Pending(j) /\ Running(j)') => slept[j] >= Throttle[j]
          /\ (Running(j) /\ ~Running(j)') => Idle(j)']_vars

\* an invocation that began exactly `throttle` seconds after its cycle's first
\* signal although further signals arrived while Pending
ThrottleTimingWitness ==
    \E j \in Jobs : Running(j) /\ slept[j] = Throttle[j] /\ "P" \in QueueTags(j)

\* C4 (re-arm): a signal delivered to a job that is Idle again after a
\* completed cycle starts a new cycle; so it is never queued in a process
\* that has ended.
ReArm ==
    \A j \in Jobs :
        (Idle(j) /\ cyclelog[j] # <<>> /\ "I" \in QueueTags(j)) => Alive

\* C5 (job independence): no job's sleep is left elapsed without its
\* invocation starting: a Pending job has slept at most its throttle.
JobIndependence ==
    \A j \in Jobs : Pending(j) => slept[j] <= Throttle[j]

\* C6 (spawn failure is recoverable): after the "initiating" line of a cycle
\* whose spawn failed, the job is Idle in a live process.
SpawnFailureRecoverable ==
    \A j \in Jobs :
        (Completed(j, "initiating") /\ ~Running(j)) => (Alive /\ Idle(j))

\* C7 (error isolation): an error in one job's cycle does not stop the
\* scheduler task of another job.
ErrorIsolation ==
    \A i, j \in Jobs :
        (i # j /\ panicBy = i /\ pc[i] # "NotStarted" /\ pc[j] # "NotStarted")
            => mainpc # "panicked"

\* C8 (unlock precedes scheduling): whenever a scheduler has subscribed,
\* holds a signal or has a child, the unlock step has run exactly once and
\* its child has been waited for.
UnlockPrecedesScheduling ==
    /\ unlockRuns <= 1
    /\ \A j \in Jobs :
        (pc[j] # "NotStarted" \/ queue[j] # <<>> \/ inflight[j] > 0)
            => (unlockRuns = 1 /\ mainpc \in {"run", "panicked"}
                /\ unlockExit # "none")

\* a backup child is running after the one unlock
UnlockPrecedesWitness ==
    \E j \in Jobs : Running(j) /\ inflight[j] = 1 /\ unlockRuns = 1

\* C9 (unlock failure is fatal): after an unlock that failed, no scheduler
\* is started and no backup child exists.
UnlockFailureFatal ==
    unlockExit \in {"nonzero", "spawn_failed", "wait_failed"}
        => \A j \in Jobs : pc[j] = "NotStarted" /\ inflight[j] = 0

\* C10 (a failed invocation does not crash the scheduler): once an invocation
\* has logged its parse failure, or its child has exited non-zero and been
\* reaped, the job is Idle with no child, its future has not panicked, and
\* the cycle made one attempt only.
FailedInvocationCompletes ==
    \A j \in Jobs :
        /\ (Completed(j, "parse_error")
            \/ (exitCode[j] = 1 /\ ~Running(j)))
                => (Idle(j) /\ inflight[j] = 0 /\ panicBy # j /\ blocker # j)
        /\ Len(SelectSeq(cyclelog[j], LAMBDA l : l.ev = "initiating")) <= 1

\* a job is Idle in a live process after an invocation that exited non-zero
\* and whose stdout could not be read
FailedInvocationWitness ==
    \E j \in Jobs :
        /\ Idle(j) /\ Alive
        /\ Completed(j, "parse_error")
        /\ "read_error" \in Events(cyclelog[j])
        /\ exitCode[j] = 1

\* C11 (change source failure terminates the job): a scheduler whose change
\* source has failed for good, with nothing left in its channel, is not left
\* waiting at rx.recv(): in a live process with the thread free it has a step
\* to take (the one that ends the job).
ChangeSourceFailureEndsJob ==
    \A j \in Jobs :
        (srcDead[j] /\ Idle(j) /\ queue[j] = <<>> /\ Alive /\ blocker = 0)
            => ENABLED SchedulerStep(j)

\* the lines of q whose event is e
LinesOf(q, e) == SelectSeq(q, LAMBDA l : l.ev = e)

\* C12 (result reporting): a completed invocation has logged exactly one of
\* a summary line and a parse-failure line, and a summary line is logged only
\* for a result object, whose three values it carries.
ResultReporting ==
    \A j \in Jobs :
        (Idle(j) /\ cyclelog[j] # <<>>) =>
            /\ Len(LinesOf(cyclelog[j], "summary"))
                   + Len(LinesOf(cyclelog[j], "parse_error")) = 1
            /\ \A i \in 1..Len(cyclelog[j]) :
                   cyclelog[j][i].ev = "summary" => cyclelog[j][i].arg = "values"

\* C13 (cross-job concurrency is permitted): while one job's invocation is in
\* flight, another job whose throttle has elapsed can start its own.
CrossJobConcurrency ==
    \A i, j \in Jobs :
        (i # j /\ Alive /\ Running(i) /\ Pending(j) /\ TimerElapsed(j))
            => ENABLED SpawnOk(j)

\* C14 (invocation argv/env contract): every backup child, of every job and
\* cycle, was launched as the configured executable with the arguments -r,
\* the repository, --json, -q, --exclude-file, the exclude file, backup and
\* the job's path, in this order, with PATH and RESTIC_PASSWORD_COMMAND set
\* from the configuration.
InvocationContract ==
    \A j \in Jobs :
        inflight[j] > 0 =>
            /\ cmd[j].exe = "cfg:restic-path"
            /\ cmd[j].args = <<"-r", "cfg:repo", "--json", "-q", "--exclude-file",
                               "cfg:exclude-file", "backup", JobPath[j]>>
            /\ cmd[j].env.PATH = "cfg:env-path"
            /\ cmd[j].env.RESTIC_PASSWORD_COMMAND = "cfg:password-command"

\* the second job's child of a follow-up cycle is running on its own path
InvocationContractWitness ==
    /\ Running(2) /\ inflight[2] = 1 /\ trigger[2] = "R"
    /\ cmd[2].args[8] = "cfg:dirs[2].path"

\* C15 (cycle structure): the drain loop never ends a cycle.  Pending is left
\* only by the spawn attempt, made once the sleep has lasted `throttle`;
\* receiving signals while Pending leaves the job Pending with its log and
\* child count as they were; Idle is reached again only from Running with
\* the child reaped and its stdout read to the end; and a completed cycle
\* has logged exactly one invocation attempt.
CycleStructure ==
    /\ [](\A j \in Jobs :
             (Idle(j) /\ cyclelog[j] # <<>>)
                 => Len(LinesOf(cyclelog[j], "initiating")) = 1)
    /\ [][\A j \in Jobs :
             /\ (Pending(j) /\ ~Pending(j)')
                    => (Running(j)' /\ TimerElapsed(j) /\ inflight'[j] = 1)
             /\ (Pending(j) /\ queue[j] # <<>> /\ queue'[j] = <<>>)
                    => /\ Pending(j)'
                       /\ cyclelog'[j] = cyclelog[j]
                       /\ inflight'[j] = inflight[j]
             /\ (Idle(j)' /\ ~Idle(j) /\ pc[j] # "NotStarted")
                    => (Running(j) /\ inflight[j] = 0 /\ ~stdoutOpen[j])]_vars

\* the first job is Idle after a cycle with one invocation, while the second
\* job, in the middle of its sleep, has signals for its drain loop to receive
CycleStructureWitness ==
    /\ Alive
    /\ Idle(1) /\ Len(LinesOf(cyclelog[1], "initiating")) = 1
    /\ Pending(2) /\ slept[2] = 1 /\ ~TimerElapsed(2) /\ queue[2] # <<>>

\* C16 (Running always ends): a job that is Running is never stuck: its child
\* can close its stdout or exit, or the invoker can return, whatever the
\* child writes to its two pipes.
RunningEnds ==
    \A j \in Jobs :
        (Alive /\ Running(j))
            => ENABLED (ChildCloseStdout(j) \/ ChildExit(j) \/ Finish(j))

\* the log of a cycle is in order: scheduled, initiating, then (after the
\* read-error line, if any) one completion line, which is the last
InOrder(q) ==
    /\ Len(q) >= 1 => q[1].ev = "scheduled"
    /\ Len(q) >= 2 => q[2].ev = "initiating"
    /\ \A i \in 3..Len(q) :
           IF i = Len(q) THEN q[i].ev \in {"summary", "parse_error"}
                         ELSE q[i].ev = "read_error" /\ Len(q) = 4

\* C17 (per-cycle log ordering): the log of a job's cycle is, in this order,
\* scheduled, initiating (written when the sleep is over), then the
\* completion line.  A job that sleeps has logged scheduled only, one that
\* runs scheduled and initiating only; the scheduled line is written by the
\* step that consumes the cycle's first signal; and within a cycle the log
\* only grows at its end.
LogOrdering ==
    /\ [](\A j \in Jobs :
             /\ InOrder(cyclelog[j])
             /\ (Pending(j) /\ Alive) => Events(cyclelog[j]) = {"scheduled"}
             /\ (Pending(j) /\ Alive) => Len(cyclelog[j]) = 1
             /\ Running(j) => Len(cyclelog[j]) = 2
             /\ (Idle(j) /\ cyclelog[j] # <<>>) => Len(cyclelog[j]) \in {3, 4})
    /\ [][\A j \in Jobs :
             /\ (Idle(j) /\ Pending(j)')
                    => cyclelog'[j] = <<LogLine("scheduled", "-")>>
             /\ (cyclelog'[j] # cyclelog[j] /\ ~(Idle(j) /\ Pending(j)'))
                    => /\ Len(cyclelog'[j]) > Len(cyclelog[j])
                       /\ SubSeq(cyclelog'[j], 1, Len(cyclelog[j])) = cyclelog[j]
             /\ (Pending(j) /\ Len(cyclelog'[j]) > Len(cyclelog[j]))
                    => TimerElapsed(j)]_vars

\* a job whose last cycle logged scheduled, initiating and a summary, in this
\* order, holds the signal that will start its next cycle
LogOrderingWitness ==
    \E j \in Jobs :
        /\ Idle(j) /\ Alive /\ queue[j] # <<>>
        /\ [i \in 1..Len(cyclelog[j]) |-> cyclelog[j][i].ev]
               = <<"scheduled", "initiating", "summary">>

Spec == Init /\ [][Next]_vars
====
